---- MODULE Spec2Model ----
(***************************************************************************)
(* Model of the rolling comment engine of Stream_IT: the React hook        *)
(* useRollingComments (bounded comment buffer, template cursor and the     *)
(* self-rescheduling randomized timer) as a state machine.                 *)
(*                                                                         *)
(* React state updates are functional updaters, applied in call order, so  *)
(* each setX(prev => f(prev)) is modelled as x' = f(x).  The effect of     *)
(* useEffect(..., [currentIndex]) is re-run (cleanup, then setup with a    *)
(* fresh closure) by the action Rerender whenever the dependency differs   *)
(* from the value the committed closure captured.  State updates on an     *)
(* unmounted component are discarded by React.                             *)
(*                                                                         *)
(* Date.now() is the variable now (milliseconds, non-decreasing).          *)
(*                                                                         *)
(* The applications around the hook are modelled too: handleTip of the tip *)
(* application and handlePayment of the pay-to-unlock application, each    *)
(* split at its awaits (pc), with the wallet's answers chosen by the       *)
(* settle actions and the applications' own timers kept in appTimers.      *)
(*                                                                         *)
(* Math.random() is an input: every call returns any value k /             *)
(* RandomScale of [0, 1) whose numerator k is in randomPool, the values    *)
(* of the session, independently of the calls before it.  SpecDraws and    *)
(* SpecArming start with any pool {w, FixedRandom}, w in RandomValues;     *)
(* the longer sessions start with the pool {FixedRandom}.  The             *)
(* values drawn while a component renders are used for display only and    *)
(* leave no trace in the state.  setTimeout keeps a set of pending timers, *)
(* each with the instant it is due and the component instance whose        *)
(* closure armed it; a timer fires once now has reached it.                *)
(* Non-ASCII characters of the source strings are written <U+XXXX>.        *)
(***************************************************************************)
EXTENDS Integers, Sequences, FiniteSets, TLC

VARIABLES
    comments,       \* useState<Comment[]>([]): the buffer
    currentIndex,   \* useState(0): the template cursor
    closureIndex,   \* currentIndex captured by the committed effect closure
    timeoutId,      \* `let timeoutId` of the committed effect closure
    effectGen,      \* number of the committed effect closure
    timers,         \* pending setTimeout timers of the event loop
    nextTimerId,    \* next handle returned by setTimeout
    now,            \* Date.now()
    mounted,        \* the component (session) is mounted
    history,        \* ghost: every append made on this hook instance, in order
    fires,          \* ghost: number of timer callbacks run
    zaps,           \* ghost: number of addZapComment calls
    mounts,         \* ghost: number of re-mounts
    cleared,        \* ghost: callbacks of timers cancelled by clearTimeout
    invoked,        \* ghost: number of cancelled callbacks invoked directly
    variant,        \* which application is running: "tip" or "pay"
    webln,          \* window.webln exists (a wallet extension is installed)
    isEnabled,      \* LightningManager: provider set and isEnabled true
    pc,             \* position of the running handleTip / handlePayment
    isProcessingTip,\* tip App state
    isLoading,      \* pay App state
    toast,          \* tip App state: the toast shown, or NoToast
    error,          \* pay App state: the error shown, or NoError
    isPaid,         \* pay App state
    localStorage,   \* streamUnlocked and paymentPreimage
    appTimers,      \* setTimeout calls of the application that are pending
    opened,         \* number of window.open calls made
    runs,           \* ghost: number of handler runs started
    outcomes,       \* ghost: how each finished run ended, in order
    payTrace,       \* ghost: wallet steps of the current handlePayment run
    mutations,      \* ghost: in-place changes a caller made to `comments`
    provider,       \* LightningManager: the provider field
    initialized,    \* ghost: number of initialize() calls that succeeded
    walletLog,      \* ghost: calls made to the manager and to window.webln
    lastRejection,  \* ghost: what the wallet rejected the last failed run with
    toastShownAt,   \* ghost: the instant of the last showToast
    orphans,        \* handleTip runs of instances replaced by a new mount
    enablePending,  \* enable() calls of direct initialize() calls in flight
    managerCalls,   \* ghost: number of direct calls of manager methods
    managerResult,  \* ghost: how the last direct manager call ended
    requests,       \* upload server: the state of each POST /upload request
    randomPool      \* numerators Math.random() returns in this session

hookVars == <<comments, currentIndex, closureIndex, timeoutId, effectGen,
              timers, nextTimerId, now, mounted, history, fires, zaps,
              mounts, cleared, invoked>>

appVars == <<variant, webln, isEnabled, pc, isProcessingTip, isLoading, toast,
             error, isPaid, localStorage, appTimers, opened, runs, outcomes,
             payTrace, mutations, provider, initialized, walletLog,
             lastRejection, toastShownAt, orphans>>

\* Direct use of the manager and the upload server.
otherVars == <<enablePending, managerCalls, managerResult, requests,
               randomPool>>

\* The scheduler side of the hook, which the handlers of the applications
\* do not touch.
schedulerVars == <<currentIndex, closureIndex, timeoutId, effectGen, timers,
                   mounted, fires, mounts, cleared, invoked>>

vars == <<hookVars, appVars, otherVars>>

-----------------------------------------------------------------------------
(* Bounds of the model *)

\* Long runs of an active session: timer firings and priority appends.
MaxFires == 22

MaxZaps == 1

\* Short runs with mounting, unmounting and more priority appends.
MaxLifecycleFires == 3

MaxLifecycleZaps == 2

MaxMounts == 1

MaxInvokes == 1

\* Runs of timer firings only.
MaxSyntheticFires == 35

\* Short runs in which every call of Math.random() returns any of several
\* values.
MaxDrawFires == 1

MaxDrawZaps == 1

\* Runs of the applications: clicks on the tip / pay button and firings of
\* the scheduler interleaved with them.
MaxRuns == 2

\* In-place changes a caller makes to the array the hook returned.
MaxMutations == 1

\* Direct calls of LightningManager methods, and upload requests.
MaxManagerCalls == 4
MaxRequests == 3
MaxAppFires == 2

\* Firings of the scheduler over the life of a session of the tip
\* application.
MaxSessionFires == 1

MaxSessionRuns == 1

\* The values of Math.random() are k / RandomScale, which makes every
\* whole number of milliseconds in [2000, 4000) a delay.
RandomScale == 2000

\* The numerator every call of Math.random() returns in the sessions that do
\* not explore the draws: 874 / 2000 = 0.437.
FixedRandom == 874

\* Longest step of the clock.
TickMs == 4000

-----------------------------------------------------------------------------
(* Program constants *)

COMMENT_TEMPLATES ==
    << "Bullish on BTC! <U+1F680>",
       "LFG <U+26A1>",
       "Smooth stream quality <U+1F44C>",
       "Stack sats, not regrets",
       "GM <U+2600><U+FE0F>",
       "This is the way",
       "21 million club <U+20BF>",
       "HODL strong <U+1F48E><U+1F64C>",
       "Lightning is the future",
       "Zap it! <U+26A1><U+26A1><U+26A1>",
       "When Lambo? <U+1F3CE><U+FE0F>",
       "Sound money only",
       "Fiat is a scam",
       "Not your keys, not your coins <U+1F511>",
       "Second layer scaling FTW",
       "Thanks for the alpha <U+1F9E0>",
       "Sat stacking intensifies",
       "Orange coin good <U+1F34A>",
       "Layer 2 go brrr",
       "Proof of work >>> Proof of stake" >>

AUTHORS ==
    << "SatoshisFan21", "LightningNode42", "BitcoinMaxi", "StackingSats",
       "HodlGang", "BTCWhale", "ZapMaster", "CryptoNinja", "MoonBoi",
       "DiamondHands" >>

MAX_COMMENTS == 20

MinInterval == 2000

IntervalSpread == 2000

SystemAuthor == "System"

DefaultZapText == "<U+26A1> New tip received! <U+26A1>"

\* The JavaScript value undefined: a missing argument, an array read out of range.
Undefined == "undefined"

\* The numerator that stands for the largest double below 1, 1 - 2^-53.
LargestRandom ==
    RandomScale

\* Math.random() returns a double in [0, 1): the numerators k of the values
\* k / RandomScale, and LargestRandom.
RandomValues ==
    0..LargestRandom

\* The pools of numerators a session that explores the draws may see: any
\* value of the range next to FixedRandom; each call of Math.random() returns
\* any value of the pool, independently of the other calls.
RandomPools ==
    { {w, FixedRandom} : w \in RandomValues }

\* The pool of the other sessions: every call returns FixedRandom.
FixedRandomValues ==
    {FixedRandom}

\* Arguments addZapComment is called with: none, the empty string, a text.
CustomMessages ==
    {Undefined, "", "Tip received!"}

\* The argument the application passes: addZapComment('Someone tipped 100 sats! ...').
AppMessages ==
    {"Someone tipped 100 sats! <U+26A1>"}

\* Texts are sequences of characters, so that String.includes is a search
\* for a contiguous run of characters.
\* 'User rejected'
UserRejected ==
    <<"U", "s", "e", "r", " ", "r", "e", "j", "e", "c", "t", "e", "d">>
\* 'User denied'
UserDenied ==
    <<"U", "s", "e", "r", " ", "d", "e", "n", "i", "e", "d">>
\* 'cancelled'
Cancelled ==
    <<"c", "a", "n", "c", "e", "l", "l", "e", "d">>
\* 'WebLN not available'
WebLNNotAvailable ==
    <<"W", "e", "b", "L", "N", " ", "n", "o", "t", " ", "a", "v", "a", "i",
      "l", "a", "b", "l", "e">>

\* Messages of the errors thrown by the two LightningManager classes.
\* 'User rejected wallet connection'
TipRejectedMessage ==
    <<"U", "s", "e", "r", " ", "r", "e", "j", "e", "c", "t", "e", "d", " ",
      "w", "a", "l", "l", "e", "t", " ", "c", "o", "n", "n", "e", "c", "t",
      "i", "o", "n">>
\* 'User cancelled the tip'
TipCancelledMessage ==
    <<"U", "s", "e", "r", " ", "c", "a", "n", "c", "e", "l", "l", "e", "d",
      " ", "t", "h", "e", " ", "t", "i", "p">>
\* 'Failed to create tip invoice'
TipInvoiceFailedMessage ==
    <<"F", "a", "i", "l", "e", "d", " ", "t", "o", " ", "c", "r", "e", "a",
      "t", "e", " ", "t", "i", "p", " ", "i", "n", "v", "o", "i", "c", "e">>
\* 'Failed to enable WebLN provider'
PayEnableFailedMessage ==
    <<"F", "a", "i", "l", "e", "d", " ", "t", "o", " ", "e", "n", "a", "b",
      "l", "e", " ", "W", "e", "b", "L", "N", " ", "p", "r", "o", "v", "i",
      "d", "e", "r">>
\* 'WebLN not available. Please install a Lightning wallet (Alby, Zeus, etc.)'
PayNotAvailableMessage ==
    <<"W", "e", "b", "L", "N", " ", "n", "o", "t", " ", "a", "v", "a", "i",
      "l", "a", "b", "l", "e", ".", " ", "P", "l", "e", "a", "s", "e", " ",
      "i", "n", "s", "t", "a", "l", "l", " ", "a", " ", "L", "i", "g", "h",
      "t", "n", "i", "n", "g", " ", "w", "a", "l", "l", "e", "t", " ", "(",
      "A", "l", "b", "y", ",", " ", "Z", "e", "u", "s", ",", " ", "e", "t",
      "c", ".", ")">>

\* Texts shown by the applications.
\* 'Please install Alby wallet extension to send tips'
InstallAlbyText ==
    <<"P", "l", "e", "a", "s", "e", " ", "i", "n", "s", "t", "a", "l", "l",
      " ", "A", "l", "b", "y", " ", "w", "a", "l", "l", "e", "t", " ", "e",
      "x", "t", "e", "n", "s", "i", "o", "n", " ", "t", "o", " ", "s", "e",
      "n", "d", " ", "t", "i", "p", "s">>
\* 'Tip invoice created! Check your wallet to complete payment.'
TipCreatedText ==
    <<"T", "i", "p", " ", "i", "n", "v", "o", "i", "c", "e", " ", "c", "r",
      "e", "a", "t", "e", "d", "!", " ", "C", "h", "e", "c", "k", " ", "y",
      "o", "u", "r", " ", "w", "a", "l", "l", "e", "t", " ", "t", "o", " ",
      "c", "o", "m", "p", "l", "e", "t", "e", " ", "p", "a", "y", "m", "e",
      "n", "t", ".">>
\* 'Tip failed: '
TipFailedPrefix ==
    <<"T", "i", "p", " ", "f", "a", "i", "l", "e", "d", ":", " ">>
\* 'Tip failed. Please try again.'
TipFailedText ==
    <<"T", "i", "p", " ", "f", "a", "i", "l", "e", "d", ".", " ", "P", "l",
      "e", "a", "s", "e", " ", "t", "r", "y", " ", "a", "g", "a", "i", "n",
      ".">>
\* 'Payment failed. Please try again.'
PayFailedText ==
    <<"P", "a", "y", "m", "e", "n", "t", " ", "f", "a", "i", "l", "e", "d",
      ".", " ", "P", "l", "e", "a", "s", "e", " ", "t", "r", "y", " ", "a",
      "g", "a", "i", "n", ".">>
\* 'Please install a Lightning wallet like Alby or Zeus to continue.'
PayInstallText ==
    <<"P", "l", "e", "a", "s", "e", " ", "i", "n", "s", "t", "a", "l", "l",
      " ", "a", " ", "L", "i", "g", "h", "t", "n", "i", "n", "g", " ", "w",
      "a", "l", "l", "e", "t", " ", "l", "i", "k", "e", " ", "A", "l", "b",
      "y", " ", "o", "r", " ", "Z", "e", "u", "s", " ", "t", "o", " ", "c",
      "o", "n", "t", "i", "n", "u", "e", ".">>
\* 'Payment cancelled. Click again when ready.'
PayCancelledText ==
    <<"P", "a", "y", "m", "e", "n", "t", " ", "c", "a", "n", "c", "e", "l",
      "l", "e", "d", ".", " ", "C", "l", "i", "c", "k", " ", "a", "g", "a",
      "i", "n", " ", "w", "h", "e", "n", " ", "r", "e", "a", "d", "y", ".">>

\* Messages the wallet rejects a request with.
\* 'User rejected'
WalletUserRejected ==
    <<"U", "s", "e", "r", " ", "r", "e", "j", "e", "c", "t", "e", "d">>
\* 'Request cancelled.'
WalletRequestCancelled ==
    <<"R", "e", "q", "u", "e", "s", "t", " ", "c", "a", "n", "c", "e", "l",
      "l", "e", "d", ".">>
\* 'Insufficient balance'
WalletInsufficientBalance ==
    <<"I", "n", "s", "u", "f", "f", "i", "c", "i", "e", "n", "t", " ", "b",
      "a", "l", "a", "n", "c", "e">>
\* 'timeout'
WalletTimeout ==
    <<"t", "i", "m", "e", "o", "u", "t">>

\* What the wallet's promises can be rejected with: Error objects with a
\* message, or a value that is not an Error.
\* byUser tells whether the user declined the request in the wallet.
ProviderRejections ==
    { [ isError |-> TRUE,  message |-> WalletUserRejected,
        byUser |-> TRUE ],
      [ isError |-> TRUE,  message |-> WalletRequestCancelled,
        byUser |-> TRUE ],
      [ isError |-> TRUE,  message |-> WalletInsufficientBalance,
        byUser |-> FALSE ],
      [ isError |-> FALSE, message |-> WalletTimeout, byUser |-> FALSE ] }

NoRejection == [ isError |-> FALSE, message |-> << >>, byUser |-> FALSE ]
NoProvider == "null"
WebLN == "window.webln"
\* 'WebLN provider not initialized. Call initialize() first.'
NotInitializedMessage ==
    <<"W", "e", "b", "L", "N", " ", "p", "r", "o", "v", "i", "d", "e", "r",
      " ", "n", "o", "t", " ", "i", "n", "i", "t", "i", "a", "l", "i", "z",
      "e", "d", ".", " ", "C", "a", "l", "l", " ", "i", "n", "i", "t", "i",
      "a", "l", "i", "z", "e", "(", ")", " ", "f", "i", "r", "s", "t", ".">>
IdleRequest == [ state |-> "idle", stored |-> FALSE, response |-> "none" ]

Preimage == "preimage"

NoToast == [ message |-> << >>, type |-> "none" ]
NoError == << >>
EmptyStorage == [ streamUnlocked |-> Undefined, paymentPreimage |-> Undefined ]
UnlockedStorage(preimage) ==
    [ streamUnlocked |-> "true", paymentPreimage |-> preimage ]

ToastMs == 5000
OpenSiteMs == 2000
InvoiceMs == 1000

-----------------------------------------------------------------------------
(* JavaScript helpers *)

\* arr[i] with a 0-based index; out of range reads undefined.
ArrayGet(arr, i) ==
    IF i >= 0 /\ i < Len(arr) THEN arr[i + 1] ELSE Undefined

\* Variant: slice(-(n - 1)), one element short.
SliceLastOffByOne(s, n) ==
    IF Len(s) <= n - 1 THEN s ELSE SubSeq(s, Len(s) - n + 2, Len(s))

\* s.slice(-n) for n > 0: the last n elements, all of s when it is shorter.
SliceLast(s, n) ==
    IF Len(s) <= n THEN s ELSE SubSeq(s, Len(s) - n + 1, Len(s))

\* a || b on strings: undefined and the empty string are falsy.
OrElse(a, b) ==
    IF a = Undefined \/ a = "" THEN b ELSE a

\* Math.floor(Math.random() * n) for the random value r / RandomScale; the
\* product of the largest double below 1 with n rounds to a double below n.
RandomBelow(r, n) ==
    IF r = LargestRandom THEN n - 1 ELSE (r * n) \div RandomScale

-----------------------------------------------------------------------------
(* useRollingComments *)

\* Variant: the index is used without wrapping.
TemplateIndexNoWrap(index) ==
    index

\* const templateIndex = currentIndex % COMMENT_TEMPLATES.length
TemplateIndex(index) ==
    index % Len(COMMENT_TEMPLATES)

\* The Comment built by injectComment in a closure that captured index,
\* with r1 and r2 the two values drawn from Math.random().
NewComment(index, r1, r2) ==
    [ id        |-> <<"comment", now, r2>>,
      author    |-> ArrayGet(AUTHORS, RandomBelow(r1, Len(AUTHORS))),
      text      |-> ArrayGet(COMMENT_TEMPLATES, TemplateIndex(index)),
      timestamp |-> now,
      isZap     |-> FALSE ]

\* Variant: the zap comment is signed with a name of the viewer pool.
ZapCommentAsViewer(customMessage) ==
    [ id        |-> <<"zap", now>>,
      author    |-> AUTHORS[1],
      text      |-> OrElse(customMessage, DefaultZapText),
      timestamp |-> now,
      isZap     |-> TRUE ]

\* The Comment built by addZapComment(customMessage).
ZapComment(customMessage) ==
    [ id        |-> <<"zap", now>>,
      author    |-> SystemAuthor,
      text      |-> OrElse(customMessage, DefaultZapText),
      timestamp |-> now,
      isZap     |-> TRUE ]

\* Variant: the updater without the slice.
AppendBoundedNoSlice(prev, c) ==
    Append(prev, c)

\* Variant: eviction that spares priority messages (drops the oldest
\* message that is not a zap, the oldest one when all are zaps).
AppendBoundedKeepZaps(prev, c) ==
    LET updated == Append(prev, c)
        plain == { i \in 1..Len(updated) : ~updated[i].isZap }
        victim == IF plain = {} THEN 1
                  ELSE CHOOSE i \in plain : \A j \in plain : i <= j
    IN  IF Len(updated) <= MAX_COMMENTS THEN updated
        ELSE SubSeq(updated, 1, victim - 1)
                 \o SubSeq(updated, victim + 1, Len(updated))

\* Variant: the new comment is put in front.
AppendBoundedPrepend(prev, c) ==
    SliceLast(<<c>> \o prev, MAX_COMMENTS)

\* Variant: slice(0, MAX_COMMENTS), which keeps the oldest comments.
AppendBoundedKeepsOldest(prev, c) ==
    LET updated == Append(prev, c)
    IN  IF Len(updated) <= MAX_COMMENTS THEN updated
        ELSE SubSeq(updated, 1, MAX_COMMENTS)

\* The updater prev => [...prev, c].slice(-MAX_COMMENTS).
AppendBounded(prev, c) ==
    SliceLast(Append(prev, c), MAX_COMMENTS)

\* Variant: the interval without its base of 2000 ms.
GetRandomIntervalNoBase(r) ==
    (r * IntervalSpread) \div RandomScale

\* const getRandomInterval = () => 2000 + Math.random() * 2000, in the
\* whole milliseconds setTimeout keeps of it.  In double arithmetic the
\* largest double below 1 gives 2000 + (2000 - 2^-42), a tie that rounds to
\* 4000; every other value gives a sum below 4000.
GetRandomInterval(r) ==
    IF r = LargestRandom
    THEN MinInterval + IntervalSpread
    ELSE MinInterval + (r * IntervalSpread) \div RandomScale

\* The timer armed by scheduleNext in closure gen (which captured index)
\* of the component instance inst, with r the value of Math.random().
NewTimer(gen, index, r, inst) ==
    [ id |-> nextTimerId, due |-> now + GetRandomInterval(r),
      delay |-> GetRandomInterval(r), gen |-> gen, index |-> index,
      inst |-> inst ]

\* The callbacks of a set of timers: the handle and the closure each one
\* belongs to.
Callbacks(ts) ==
    { [ id |-> t.id, gen |-> t.gen, index |-> t.index, inst |-> t.inst ] :
        t \in ts }

\* clearTimeout(id) applied to a set of pending timers.
ClearTimeout(ts, id) ==
    { t \in ts : t.id # id }

\* Ghost record of one append: the operation, the value of the cursor state
\* when it ran (synthetic) or the argument it was called with (priority),
\* and the message it created.
SyntheticEntry(cursor, c) ==
    [ op |-> "synthetic", cursor |-> cursor, arg |-> Undefined, msg |-> c ]

\* message.includes(needle): needle occurs in message as a contiguous run of
\* characters.
Includes(message, needle) ==
    \E i \in 1..(Len(message) - Len(needle) + 1) :
        SubSeq(message, i, i + Len(needle) - 1) = needle

\* new Error(message)
NewError(message) ==
    [ isError |-> TRUE, message |-> message ]

\* setTimeout(callback, ms) called by a handler of the component instance
\* inst.
AppTimer(id, kind, ms, inst) ==
    [ id |-> id, due |-> now + ms, kind |-> kind, inst |-> inst ]

ZapEntry(customMessage, c) ==
    [ op |-> "zap", cursor |-> -1, arg |-> customMessage, msg |-> c ]

\* The hook after the first render and the first run of its effect, which
\* arms the first timer with a delay drawn from Math.random().
InitHookWithin(values) ==
    /\ comments = << >>
    /\ currentIndex = 0
    /\ closureIndex = 0
    /\ effectGen = 0
    /\ nextTimerId = 2
    /\ now = 0
    /\ mounted = TRUE
    /\ \E r \in values :
          timers = { [ id |-> 1, due |-> GetRandomInterval(r),
                       delay |-> GetRandomInterval(r),
                       gen |-> 0, index |-> 0, inst |-> 0 ] }
    /\ timeoutId = 1
    /\ history = << >>
    /\ fires = 0
    /\ zaps = 0
    /\ mounts = 0
    /\ cleared = {}
    /\ invoked = 0

\* The pay-to-unlock application before any interaction; its hook is kept
\* as an append-only buffer here.
InitPayHook ==
    /\ comments = << >>
    /\ currentIndex = 0
    /\ closureIndex = 0
    /\ effectGen = 0
    /\ nextTimerId = 1
    /\ now = 0
    /\ mounted = TRUE
    /\ timers = {}
    /\ timeoutId = 0
    /\ history = << >>
    /\ fires = 0
    /\ zaps = 0
    /\ mounts = 0
    /\ cleared = {}
    /\ invoked = 0

\* useState(false), useState(null), new LightningManager(): no handler
\* running, nothing shown, no application timer pending.
InitAppIdle ==
    /\ isEnabled = FALSE
    /\ pc = "idle"
    /\ isProcessingTip = FALSE
    /\ isLoading = FALSE
    /\ toast = NoToast
    /\ error = NoError
    /\ appTimers = {}
    /\ opened = 0
    /\ runs = 0
    /\ outcomes = << >>
    /\ payTrace = << >>
    /\ mutations = 0
    /\ provider = NoProvider
    /\ initialized = 0
    /\ walletLog = << >>
    /\ lastRejection = NoRejection
    /\ toastShownAt = 0
    /\ orphans = {}
    /\ enablePending = 0
    /\ managerCalls = 0
    /\ managerResult = "none"
    /\ requests = [ r \in 1..MaxRequests |-> IdleRequest ]

InitHook ==
    InitHookWithin(FixedRandomValues)

\* The tip application with a wallet installed and the session mounted.
Init ==
    /\ randomPool = FixedRandomValues
    /\ InitHook
    /\ InitAppIdle
    /\ variant = "tip"
    /\ webln = TRUE
    /\ isPaid = FALSE
    /\ localStorage = EmptyStorage

\* The same, with the draws of the session taken from one of RandomPools.
InitDraws ==
    /\ randomPool \in RandomPools
    /\ InitHookWithin(randomPool)
    /\ InitAppIdle
    /\ variant = "tip"
    /\ webln = TRUE
    /\ isPaid = FALSE
    /\ localStorage = EmptyStorage

\* The tip application with or without a wallet.
InitSession ==
    /\ randomPool = FixedRandomValues
    /\ InitHook
    /\ InitAppIdle
    /\ variant = "tip"
    /\ webln \in BOOLEAN
    /\ isPaid = FALSE
    /\ localStorage = EmptyStorage

\* Either application, with or without a wallet; the pay application
\* restores isPaid from localStorage.
InitApp ==
    /\ randomPool = FixedRandomValues
    /\ InitAppIdle
    /\ webln \in BOOLEAN
    /\ \/ /\ variant = "tip"
          /\ InitHook
          /\ isPaid = FALSE
          /\ localStorage = EmptyStorage
       \/ /\ variant = "pay"
          /\ InitPayHook
          /\ \E stored \in { EmptyStorage, UnlockedStorage(Preimage) } :
                /\ localStorage = stored
                /\ isPaid = (stored.streamUnlocked = "true")

\* Variant: the state updates of the callback are applied although the
\* component is unmounted.
TimerCallbackAlways(t, r1, r2, r3) ==
    LET c  == NewComment(t.index, r1, r2)
        nt == NewTimer(t.gen, t.index, r3, t.inst)
    IN  /\ comments' = AppendBounded(comments, c)
        /\ currentIndex' = currentIndex + 1
        /\ history' = Append(history, SyntheticEntry(currentIndex, c))
        /\ timers' = (timers \ {t}) \cup {nt}
        /\ timeoutId' = IF t.gen = effectGen THEN nt.id ELSE timeoutId
        /\ nextTimerId' = nextTimerId + 1
        /\ fires' = fires + 1

\* Variant: injectComment without setCurrentIndex(prev => prev + 1).
TimerCallbackNoIncrement(t, r1, r2, r3) ==
    LET c  == NewComment(t.index, r1, r2)
        nt == NewTimer(t.gen, t.index, r3, t.inst)
    IN  /\ IF mounted /\ t.inst = mounts
              THEN /\ comments' = AppendBounded(comments, c)
                   /\ currentIndex' = currentIndex
                   /\ history' = Append(history, SyntheticEntry(currentIndex, c))
              ELSE UNCHANGED <<comments, currentIndex, history>>
        /\ timers' = (timers \ {t}) \cup {nt}
        /\ timeoutId' = IF t.gen = effectGen THEN nt.id ELSE timeoutId
        /\ nextTimerId' = nextTimerId + 1
        /\ fires' = fires + 1

\* The body of the callback given to setTimeout by scheduleNext, run for the
\* timer record t: injectComment() then scheduleNext(), with r1, r2 and r3
\* the values Math.random() returns for the author, the id and the delay.
\* The state updates reach the state only when the instance that armed the
\* timer is the one mounted.
TimerCallback(t, r1, r2, r3) ==
    LET c  == NewComment(t.index, r1, r2)
        nt == NewTimer(t.gen, t.index, r3, t.inst)
    IN  /\ IF mounted /\ t.inst = mounts
              THEN /\ comments' = AppendBounded(comments, c)
                   /\ currentIndex' = currentIndex + 1
                   /\ history' = Append(history, SyntheticEntry(currentIndex, c))
              ELSE UNCHANGED <<comments, currentIndex, history>>
        /\ timers' = (timers \ {t}) \cup {nt}
        /\ timeoutId' = IF t.gen = effectGen THEN nt.id ELSE timeoutId
        /\ nextTimerId' = nextTimerId + 1
        /\ fires' = fires + 1

\* A pending timer whose delay has elapsed fires.
FireWithin(maxFires, values) ==
    /\ fires < maxFires
    /\ \E t \in timers, r1 \in values, r2 \in values, r3 \in values :
          /\ t.due <= now
          /\ TimerCallback(t, r1, r2, r3)
    /\ UNCHANGED <<closureIndex, effectGen, now, mounted, zaps, mounts,
                   cleared, invoked>>
    /\ UNCHANGED appVars
    /\ UNCHANGED otherVars

Fire ==
    FireWithin(MaxFires, randomPool)

LifecycleFire ==
    FireWithin(MaxLifecycleFires, randomPool)

DrawFire ==
    FireWithin(MaxDrawFires, randomPool)

SyntheticFire ==
    FireWithin(MaxSyntheticFires, randomPool)

\* Variant: a cleanup whose timeoutId was never assigned clears nothing.
CleanupTimersNone ==
    timers

\* Variant: a cleanup that clears the handle before the latest one.
CleanupTimersStale ==
    ClearTimeout(timers, timeoutId - 1)

\* The cleanup function of the committed effect: clearTimeout(timeoutId).
CleanupTimers ==
    ClearTimeout(timers, timeoutId)

\* Variant: the re-run effect cleans up but does not call scheduleNext().
RerenderNoScheduleWithin(values) ==
    /\ mounted
    /\ closureIndex # currentIndex
    /\ timers' = CleanupTimers
    /\ cleared' = cleared \cup Callbacks(timers \ CleanupTimers)
    /\ closureIndex' = currentIndex
    /\ effectGen' = effectGen + 1
    /\ UNCHANGED <<comments, currentIndex, now, mounted, history, fires, zaps,
                   mounts, invoked, timeoutId, nextTimerId>>
    /\ UNCHANGED appVars
    /\ UNCHANGED otherVars

\* React re-runs the effect because its dependency currentIndex changed:
\* cleanup of the committed closure, then setup of a new closure.
RerenderWithin(values) ==
    /\ mounted
    /\ closureIndex # currentIndex
    /\ \E r \in values :
          LET nt == NewTimer(effectGen + 1, currentIndex, r, mounts)
          IN  /\ timers' = CleanupTimers \cup {nt}
              /\ timeoutId' = nt.id
              /\ cleared' = cleared \cup Callbacks(timers \ CleanupTimers)
    /\ closureIndex' = currentIndex
    /\ effectGen' = effectGen + 1
    /\ nextTimerId' = nextTimerId + 1
    /\ UNCHANGED <<comments, currentIndex, now, mounted, history, fires, zaps,
                   mounts, invoked>>
    /\ UNCHANGED appVars
    /\ UNCHANGED otherVars

Rerender ==
    RerenderWithin(randomPool)

\* Variant: addZapComment that also advances the cursor.
AddZapCommentWithinAdvancing(maxZaps, messages) ==
    /\ mounted
    /\ zaps < maxZaps
    /\ \E customMessage \in messages :
          LET c == ZapComment(customMessage)
          IN  /\ comments' = AppendBounded(comments, c)
              /\ history' = Append(history, ZapEntry(customMessage, c))
    /\ zaps' = zaps + 1
    /\ currentIndex' = currentIndex + 1
    /\ UNCHANGED <<closureIndex, timeoutId, effectGen, timers,
                   nextTimerId, now, mounted, fires, mounts, cleared,
                   invoked>>
    /\ UNCHANGED appVars
    /\ UNCHANGED otherVars

\* addZapComment(customMessage), called by the application with one of the
\* given arguments.  The buffer is the state of the mounted component.
AddZapCommentWithin(maxZaps, messages) ==
    /\ mounted
    /\ zaps < maxZaps
    /\ \E customMessage \in messages :
          LET c == ZapComment(customMessage)
          IN  /\ comments' = AppendBounded(comments, c)
              /\ history' = Append(history, ZapEntry(customMessage, c))
    /\ zaps' = zaps + 1
    /\ UNCHANGED <<currentIndex, closureIndex, timeoutId, effectGen, timers,
                   nextTimerId, now, mounted, fires, mounts, cleared,
                   invoked>>
    /\ UNCHANGED appVars
    /\ UNCHANGED otherVars

AddZapComment ==
    AddZapCommentWithin(MaxZaps, CustomMessages)

LifecycleAddZapComment ==
    AddZapCommentWithin(MaxLifecycleZaps, AppMessages)

DrawAddZapComment ==
    AddZapCommentWithin(MaxDrawZaps, AppMessages)

\* Variant: the cleanup also empties the buffer and resets the cursor.
UnmountClearing ==
    /\ mounted
    /\ mounted' = FALSE
    /\ timers' = CleanupTimers
    /\ cleared' = cleared \cup Callbacks(timers \ CleanupTimers)
    /\ comments' = << >>
    /\ currentIndex' = 0
    /\ UNCHANGED <<closureIndex, timeoutId, effectGen, nextTimerId, now,
                   history, fires, zaps, mounts, invoked>>
    /\ UNCHANGED appVars
    /\ UNCHANGED otherVars

\* The component unmounts: React runs the cleanup of the committed effect.
Unmount ==
    /\ mounted
    /\ mounted' = FALSE
    /\ timers' = CleanupTimers
    /\ cleared' = cleared \cup Callbacks(timers \ CleanupTimers)
    /\ UNCHANGED <<comments, currentIndex, closureIndex, timeoutId, effectGen,
                   nextTimerId, now, history, fires, zaps, mounts,
                   invoked>>
    /\ UNCHANGED appVars
    /\ UNCHANGED otherVars

\* Variant: a mount that does not call scheduleNext().
MountHookNoSchedule(values) ==
    /\ ~mounted
    /\ mounts < MaxMounts
    /\ mounted' = TRUE
    /\ comments' = << >>
    /\ currentIndex' = 0
    /\ closureIndex' = 0
    /\ history' = << >>
    /\ effectGen' = effectGen + 1
    /\ mounts' = mounts + 1
    /\ UNCHANGED <<timers, timeoutId, nextTimerId, now, fires, zaps,
                   cleared, invoked>>

\* The hook of a component that mounts again: fresh state, then the effect
\* is set up.
MountHook(values) ==
    /\ ~mounted
    /\ mounts < MaxMounts
    /\ mounted' = TRUE
    /\ comments' = << >>
    /\ currentIndex' = 0
    /\ closureIndex' = 0
    /\ history' = << >>
    /\ \E r \in values :
          LET nt == NewTimer(effectGen + 1, 0, r, mounts + 1)
          IN  /\ timers' = timers \cup {nt}
              /\ timeoutId' = nt.id
    /\ effectGen' = effectGen + 1
    /\ nextTimerId' = nextTimerId + 1
    /\ mounts' = mounts + 1
    /\ UNCHANGED <<now, fires, zaps, cleared, invoked>>

\* The component mounts again: fresh state, then the effect is set up.
MountWithin(values) ==
    /\ MountHook(values)
    /\ UNCHANGED appVars
    /\ UNCHANGED otherVars

Mount ==
    MountWithin(randomPool)

\* The earliest instant at which a pending timer is due.
PendingDues ==
    { t.due : t \in timers } \cup { t.due : t \in appTimers }

EarliestDue ==
    CHOOSE d \in PendingDues : \A e \in PendingDues : d <= e

\* Time passes, up to the instant the next timer is due: a timer fires when
\* its delay has elapsed, and React commits a pending re-render before any
\* timer delay elapses.
TickWithin(maxFires) ==
    /\ PendingDues # {}
    /\ fires < maxFires
    /\ mounted => closureIndex = currentIndex
    /\ \A d \in PendingDues : now < d
    /\ now' = IF now + TickMs < EarliestDue THEN now + TickMs ELSE EarliestDue
    /\ UNCHANGED <<comments, currentIndex, closureIndex, timeoutId, effectGen,
                   timers, nextTimerId, mounted, history, fires, zaps,
                   mounts, cleared, invoked>>
    /\ UNCHANGED appVars
    /\ UNCHANGED otherVars

Tick ==
    TickWithin(MaxFires)

LifecycleTick ==
    TickWithin(MaxLifecycleFires)

DrawTick ==
    TickWithin(MaxDrawFires)

SyntheticTick ==
    TickWithin(MaxSyntheticFires)

\* A test captures the callback of a timer and calls it directly after the
\* scheduler was cancelled.
InvokeCancelledCallback ==
    /\ ~mounted
    /\ invoked < MaxInvokes
    /\ fires < MaxLifecycleFires
    /\ \E t \in cleared, r1 \in randomPool,
          r2 \in randomPool, r3 \in randomPool :
          TimerCallback([t EXCEPT !.id = 0], r1, r2, r3)
    /\ invoked' = invoked + 1
    /\ UNCHANGED <<closureIndex, effectGen, now, mounted, zaps, mounts,
                   cleared>>
    /\ UNCHANGED appVars
    /\ UNCHANGED otherVars

\* An active session.
\* A caller changes the array it got from the hook in place, here with
\* comments.pop(): the hook returns its state array itself, not a copy, so
\* the array of the state loses its last element.
MutateSnapshot ==
    /\ mounted
    /\ mutations < MaxMutations
    /\ comments # << >>
    /\ comments' = SubSeq(comments, 1, Len(comments) - 1)
    /\ mutations' = mutations + 1
    /\ UNCHANGED <<currentIndex, closureIndex, timeoutId, effectGen, timers,
                   nextTimerId, now, mounted, history, fires, zaps,
                   mounts, cleared, invoked>>
    /\ UNCHANGED <<orphans, variant, webln, isEnabled, pc, isProcessingTip, isLoading,
                   toast, error, isPaid, localStorage, appTimers, opened,
                   runs, outcomes, payTrace>>
    /\ UNCHANGED <<provider, initialized, walletLog, lastRejection,
                   toastShownAt>>
    /\ UNCHANGED otherVars

-----------------------------------------------------------------------------
(* The tip application: handleTip *)

AppFire ==
    FireWithin(MaxAppFires, randomPool)

AppTick ==
    TickWithin(MaxAppFires)

SessionFire ==
    FireWithin(MaxSessionFires, randomPool)

SessionTick ==
    TickWithin(MaxSessionFires)

\* catch (err) of handleTip: the toast it shows, NoToast for the silent
\* return on a cancellation.
TipCatchToast(err) ==
    IF err.isError
    THEN IF Includes(err.message, UserRejected) \/ Includes(err.message, Cancelled)
         THEN NoToast
         ELSE IF Includes(err.message, WebLNNotAvailable)
              THEN [ message |-> err.message, type |-> "error" ]
              ELSE [ message |-> TipFailedPrefix \o err.message,
                     type |-> "error" ]
    ELSE [ message |-> TipFailedText, type |-> "error" ]

\* catch (error) of createTipInvoice: what it throws for a rejection of
\* provider.makeInvoice.
CreateTipInvoiceError(rejection) ==
    IF rejection.isError
    THEN IF \/ Includes(rejection.message, UserRejected)
            \/ Includes(rejection.message, UserDenied)
            \/ Includes(rejection.message, Cancelled)
         THEN NewError(TipCancelledMessage)
         ELSE rejection
    ELSE NewError(TipInvoiceFailedMessage)

\* How a run that ended in catch is recorded.
TipCatchOutcome(err) ==
    IF TipCatchToast(err) = NoToast THEN "cancelled" ELSE "error"

\* showToast(message, type) when shown is a toast; nothing for NoToast.
\* setToast reaches the state only while the component is mounted; the
\* timer is armed in any case.
ShowToast(shown) ==
    IF shown = NoToast
    THEN UNCHANGED <<toast, toastShownAt, appTimers, nextTimerId>>
    ELSE /\ toast' = IF mounted THEN shown ELSE toast
         /\ toastShownAt' = IF mounted THEN now ELSE toastShownAt
         /\ appTimers' = appTimers \cup
                            { AppTimer(nextTimerId, "dismiss", ToastMs, mounts) }
         /\ nextTimerId' = nextTimerId + 1

\* handleTip leaves through catch with err, then finally.
TipFail(err) ==
    /\ ShowToast(TipCatchToast(err))
    /\ isProcessingTip' = (~mounted /\ isProcessingTip)
    /\ pc' = "idle"
    /\ outcomes' = Append(outcomes, TipCatchOutcome(err))
    /\ UNCHANGED <<comments, history, zaps>>

\* Variant: the tip button is not disabled while a tip is processed.
TipClickNoDisableWithin(maxRuns) ==
    /\ variant = "tip"
    /\ mounted
    /\ runs < maxRuns
    /\ runs' = runs + 1
    /\ IF ~webln
       THEN /\ toast' = [ message |-> InstallAlbyText, type |-> "error" ]
            /\ toastShownAt' = now
            /\ appTimers' = appTimers \cup
                  { AppTimer(nextTimerId, "dismiss", ToastMs, mounts),
                    AppTimer(nextTimerId + 1, "open", OpenSiteMs, mounts) }
            /\ nextTimerId' = nextTimerId + 2
            /\ isProcessingTip' = FALSE
            /\ outcomes' = Append(outcomes, "noWallet")
            /\ pc' = "idle"
            /\ UNCHANGED walletLog
       ELSE /\ isProcessingTip' = TRUE
            /\ pc' = "enable"
            /\ walletLog' = walletLog \o <<"initialize", "enable">>
            /\ UNCHANGED <<toast, toastShownAt, appTimers, nextTimerId,
                           outcomes>>
    /\ UNCHANGED <<comments, history, zaps, now, schedulerVars>>
    /\ UNCHANGED <<orphans, mutations, variant, webln, isEnabled, provider, initialized,
                   lastRejection, isLoading, error, isPaid, localStorage,
                   opened, payTrace>>
    /\ UNCHANGED otherVars

\* Variant: without a wallet the handler shows the toast and goes on to
\* initialize().
TipClickNoEarlyReturnWithin(maxRuns) ==
    /\ variant = "tip"
    /\ mounted
    /\ ~isProcessingTip
    /\ runs < maxRuns
    /\ runs' = runs + 1
    /\ IF ~webln
       THEN /\ toast' = [ message |-> InstallAlbyText, type |-> "error" ]
            /\ toastShownAt' = now
            /\ appTimers' = appTimers \cup
                  { AppTimer(nextTimerId, "dismiss", ToastMs, mounts),
                    AppTimer(nextTimerId + 1, "open", OpenSiteMs, mounts) }
            /\ nextTimerId' = nextTimerId + 2
            /\ isProcessingTip' = TRUE
            /\ pc' = "enable"
            /\ walletLog' = Append(walletLog, "initialize")
            /\ UNCHANGED outcomes
       ELSE /\ isProcessingTip' = TRUE
            /\ pc' = "enable"
            /\ walletLog' = walletLog \o <<"initialize", "enable">>
            /\ UNCHANGED <<toast, toastShownAt, appTimers, nextTimerId,
                           outcomes>>
    /\ UNCHANGED <<comments, history, zaps, now, schedulerVars>>
    /\ UNCHANGED <<orphans, mutations, variant, webln, isEnabled, provider, initialized,
                   lastRejection, isLoading, error, isPaid, localStorage,
                   opened, payTrace>>
    /\ UNCHANGED otherVars

\* A click on the tip button, which is disabled while isProcessingTip, up
\* to the first await.  Without a wallet the handler shows the toast, arms
\* the timer that opens the wallet's site and returns through finally
\* before the handler yields.
TipClickWithin(maxRuns) ==
    /\ variant = "tip"
    /\ mounted
    /\ ~isProcessingTip
    /\ runs < maxRuns
    /\ runs' = runs + 1
    /\ IF ~webln
       THEN /\ toast' = [ message |-> InstallAlbyText, type |-> "error" ]
            /\ toastShownAt' = now
            /\ appTimers' = appTimers \cup
                  { AppTimer(nextTimerId, "dismiss", ToastMs, mounts),
                    AppTimer(nextTimerId + 1, "open", OpenSiteMs, mounts) }
            /\ nextTimerId' = nextTimerId + 2
            /\ isProcessingTip' = FALSE
            /\ outcomes' = Append(outcomes, "noWallet")
            /\ pc' = "idle"
            /\ UNCHANGED walletLog
       ELSE /\ isProcessingTip' = TRUE
            /\ pc' = "enable"
            /\ walletLog' = walletLog \o <<"initialize", "enable">>
            /\ UNCHANGED <<toast, toastShownAt, appTimers, nextTimerId,
                           outcomes>>
    /\ UNCHANGED <<comments, history, zaps, now, schedulerVars>>
    /\ UNCHANGED <<orphans, mutations, variant, webln, isEnabled, provider, initialized,
                   lastRejection, isLoading, error, isPaid, localStorage,
                   opened, payTrace>>
    /\ UNCHANGED otherVars

TipClick ==
    TipClickWithin(MaxRuns)

SessionTipClick ==
    TipClickWithin(MaxSessionRuns)

\* window.webln.enable() settles during initialize() of the tip manager,
\* which reports every rejection as a rejection by the user; on success
\* createTipInvoice() asks the provider for an invoice.
TipEnableSettled ==
    /\ variant = "tip"
    /\ pc = "enable"
    /\ \/ /\ isEnabled' = TRUE
          /\ provider' = WebLN
          /\ initialized' = initialized + 1
          /\ walletLog' = walletLog \o <<"createTipInvoice", "makeInvoice">>
          /\ pc' = "invoice"
          /\ UNCHANGED <<toast, toastShownAt, appTimers, nextTimerId,
                         isProcessingTip, outcomes, comments, history, zaps,
                         lastRejection>>
       \/ /\ \E rejection \in ProviderRejections :
                lastRejection' = rejection
          /\ TipFail(NewError(TipRejectedMessage))
          /\ UNCHANGED <<isEnabled, provider, initialized, walletLog>>
    /\ UNCHANGED <<now, schedulerVars>>
    /\ UNCHANGED <<orphans, mutations, variant, webln, isLoading, error, isPaid,
                   localStorage, opened, runs, payTrace>>
    /\ UNCHANGED otherVars

\* Variant: the cancellation returns from catch without running finally.
TipInvoiceSettledNoFinally ==
    /\ variant = "tip"
    /\ pc = "invoice"
    /\ \/ /\ ShowToast([ message |-> TipCreatedText, type |-> "success" ])
          /\ \E customMessage \in AppMessages :
                LET c == ZapComment(customMessage)
                IN  IF mounted
                    THEN /\ comments' = AppendBounded(comments, c)
                         /\ history' =
                               Append(history, ZapEntry(customMessage, c))
                    ELSE UNCHANGED <<comments, history>>
          /\ zaps' = zaps + 1
          /\ isProcessingTip' = (~mounted /\ isProcessingTip)
          /\ pc' = "idle"
          /\ outcomes' = Append(outcomes, "success")
          /\ UNCHANGED lastRejection
       \/ \E rejection \in ProviderRejections :
             LET err == CreateTipInvoiceError(rejection)
             IN  /\ ShowToast(TipCatchToast(err))
                 /\ isProcessingTip' =
                       (IF mounted THEN TipCatchToast(err) = NoToast
                        ELSE isProcessingTip)
                 /\ pc' = "idle"
                 /\ outcomes' = Append(outcomes, TipCatchOutcome(err))
                 /\ lastRejection' = rejection
                 /\ UNCHANGED <<comments, history, zaps>>
    /\ UNCHANGED <<now, schedulerVars>>
    /\ UNCHANGED <<orphans, mutations, variant, webln, isEnabled, provider, initialized,
                   walletLog, isLoading, error, isPaid, localStorage, opened,
                   runs, payTrace>>
    /\ UNCHANGED otherVars

\* Variant: the zap comment is added in finally, on every path.
TipInvoiceSettledZapAlways ==
    /\ variant = "tip"
    /\ pc = "invoice"
    /\ \/ /\ ShowToast([ message |-> TipCreatedText, type |-> "success" ])
          /\ outcomes' = Append(outcomes, "success")
          /\ UNCHANGED lastRejection
       \/ \E rejection \in ProviderRejections :
             LET err == CreateTipInvoiceError(rejection)
             IN  /\ ShowToast(TipCatchToast(err))
                 /\ outcomes' = Append(outcomes, TipCatchOutcome(err))
                 /\ lastRejection' = rejection
    /\ \E customMessage \in AppMessages :
          LET c == ZapComment(customMessage)
          IN  IF mounted
              THEN /\ comments' = AppendBounded(comments, c)
                   /\ history' = Append(history, ZapEntry(customMessage, c))
              ELSE UNCHANGED <<comments, history>>
    /\ zaps' = zaps + 1
    /\ isProcessingTip' = (~mounted /\ isProcessingTip)
    /\ pc' = "idle"
    /\ UNCHANGED <<now, schedulerVars>>
    /\ UNCHANGED <<orphans, mutations, variant, webln, isEnabled, provider, initialized,
                   walletLog, isLoading, error, isPaid, localStorage, opened,
                   runs, payTrace>>
    /\ UNCHANGED otherVars

\* provider.makeInvoice() settles during createTipInvoice(): on success the
\* handler shows the toast and calls addZapComment; on a rejection it leaves
\* through catch.  finally resets the flag on every path.
TipInvoiceSettled ==
    /\ variant = "tip"
    /\ pc = "invoice"
    /\ \/ /\ ShowToast([ message |-> TipCreatedText, type |-> "success" ])
          /\ \E customMessage \in AppMessages :
                LET c == ZapComment(customMessage)
                IN  IF mounted
                    THEN /\ comments' = AppendBounded(comments, c)
                         /\ history' =
                               Append(history, ZapEntry(customMessage, c))
                    ELSE UNCHANGED <<comments, history>>
          /\ zaps' = zaps + 1
          /\ isProcessingTip' = (~mounted /\ isProcessingTip)
          /\ pc' = "idle"
          /\ outcomes' = Append(outcomes, "success")
          /\ UNCHANGED lastRejection
       \/ \E rejection \in ProviderRejections :
             /\ TipFail(CreateTipInvoiceError(rejection))
             /\ lastRejection' = rejection
    /\ UNCHANGED <<now, schedulerVars>>
    /\ UNCHANGED <<orphans, mutations, variant, webln, isEnabled, provider, initialized,
                   walletLog, isLoading, error, isPaid, localStorage, opened,
                   runs, payTrace>>
    /\ UNCHANGED otherVars

\* The timer of showToast fires: setToast(null), whatever toast is shown
\* by the instance that armed the timer; nothing when that instance is no
\* longer mounted.
DismissToast ==
    /\ \E t \in appTimers :
          /\ t.kind = "dismiss"
          /\ t.due <= now
          /\ appTimers' = appTimers \ {t}
          /\ toast' = IF mounted /\ t.inst = mounts THEN NoToast ELSE toast
    /\ UNCHANGED hookVars
    /\ UNCHANGED <<orphans, mutations, variant, webln, isEnabled, provider, initialized,
                   walletLog, lastRejection, toastShownAt, pc, isProcessingTip,
                   isLoading, error, isPaid, localStorage, opened, runs,
                   outcomes, payTrace>>
    /\ UNCHANGED otherVars

\* The timer armed on the missing-wallet path fires: window.open(...).
OpenWalletSite ==
    /\ \E t \in appTimers :
          /\ t.kind = "open"
          /\ t.due <= now
          /\ appTimers' = appTimers \ {t}
    /\ opened' = opened + 1
    /\ UNCHANGED hookVars
    /\ UNCHANGED <<orphans, mutations, variant, webln, isEnabled, provider, initialized,
                   walletLog, lastRejection, toastShownAt, pc, isProcessingTip,
                   isLoading, toast, error, isPaid, localStorage, runs,
                   outcomes, payTrace>>
    /\ UNCHANGED otherVars

-----------------------------------------------------------------------------
(* The pay-to-unlock application: handlePayment *)

\* catch (err) of handlePayment: the message passed to setError.
PayCatchMessage(err) ==
    IF err.isError
    THEN IF Includes(err.message, WebLNNotAvailable)
         THEN PayInstallText
         ELSE IF Includes(err.message, UserRejected)
              THEN PayCancelledText
              ELSE err.message
    ELSE PayFailedText

\* Variant: catch leaves the error state as it is.
PayFailSilent(err) ==
    /\ error' = error
    /\ isLoading' = FALSE
    /\ pc' = "idle"
    /\ outcomes' = Append(outcomes, "error")
    /\ UNCHANGED <<isPaid, localStorage, comments, history, zaps>>

\* handlePayment leaves through catch with err, then finally.
PayFail(err) ==
    /\ error' = PayCatchMessage(err)
    /\ isLoading' = FALSE
    /\ pc' = "idle"
    /\ outcomes' = Append(outcomes, "error")
    /\ UNCHANGED <<isPaid, localStorage, comments, history, zaps>>

\* addZapComment() of the pay application's hook: a priority message with
\* the default text is appended with the truncation rule.
PayAddZapComment ==
    LET c == ZapComment(Undefined)
    IN  /\ comments' = AppendBounded(comments, c)
        /\ history' = Append(history, ZapEntry(Undefined, c))
        /\ zaps' = zaps + 1

\* A click on the pay button, up to the first await: the button is rendered
\* while the stream is locked and disabled while isLoading.  Without a
\* wallet initialize() returns a rejected promise.
PayClick ==
    /\ variant = "pay"
    /\ ~isPaid
    /\ ~isLoading
    /\ runs < MaxRuns
    /\ runs' = runs + 1
    /\ error' = NoError
    /\ isLoading' = TRUE
    /\ payTrace' = << >>
    /\ pc' = IF webln THEN "enable" ELSE "init"
    /\ walletLog' = walletLog \o (IF webln THEN <<"initialize", "enable">>
                                            ELSE <<"initialize">>)
    /\ UNCHANGED hookVars
    /\ UNCHANGED <<orphans, mutations, variant, webln, isEnabled, provider, initialized,
                   lastRejection, toastShownAt, isProcessingTip, toast, isPaid,
                   localStorage, appTimers, opened, outcomes>>
    /\ UNCHANGED otherVars

\* The rejected promise of initialize() is delivered to the handler.
PayInitRejected ==
    /\ variant = "pay"
    /\ pc = "init"
    /\ PayFail(NewError(PayNotAvailableMessage))
    /\ UNCHANGED <<lastRejection, payTrace>>
    /\ UNCHANGED <<nextTimerId, now, schedulerVars>>
    /\ UNCHANGED <<orphans, mutations, variant, webln, isEnabled, provider, initialized,
                   walletLog, toastShownAt, isProcessingTip, toast, appTimers,
                   opened, runs>>
    /\ UNCHANGED otherVars

\* window.webln.enable() settles during initialize() of the pay manager; on
\* success generateInvoice() arms its timer of one second.
PayEnableSettled ==
    /\ variant = "pay"
    /\ pc = "enable"
    /\ \/ /\ isEnabled' = TRUE
          /\ provider' = WebLN
          /\ initialized' = initialized + 1
          /\ walletLog' = Append(walletLog, "generateInvoice")
          /\ payTrace' = Append(payTrace, "initialize")
          /\ appTimers' = appTimers \cup
                             { AppTimer(nextTimerId, "invoice", InvoiceMs, mounts) }
          /\ nextTimerId' = nextTimerId + 1
          /\ pc' = "invoice"
          /\ UNCHANGED <<error, isLoading, outcomes, isPaid, localStorage,
                         comments, history, zaps, lastRejection>>
       \/ /\ \E rejection \in ProviderRejections :
                lastRejection' = rejection
          /\ PayFail(NewError(PayEnableFailedMessage))
          /\ UNCHANGED <<isEnabled, provider, initialized, walletLog,
                         payTrace, appTimers, nextTimerId>>
    /\ UNCHANGED <<now, schedulerVars>>
    /\ UNCHANGED <<orphans, mutations, variant, webln, toastShownAt, isProcessingTip,
                   toast, opened, runs>>
    /\ UNCHANGED otherVars

\* The timer of generateInvoice() fires: the invoice is returned and
\* sendPayment(invoice) is called, which asks the provider to pay.
PayInvoiceReady ==
    /\ variant = "pay"
    /\ pc = "invoice"
    /\ \E t \in appTimers :
          /\ t.kind = "invoice"
          /\ t.due <= now
          /\ appTimers' = appTimers \ {t}
    /\ IF isEnabled /\ provider # NoProvider
       THEN /\ payTrace' = payTrace \o <<"generateInvoice", "sendPayment">>
            /\ walletLog' = walletLog \o <<"sendPayment", "provider.sendPayment">>
            /\ pc' = "send"
            /\ UNCHANGED <<error, isLoading, outcomes, isPaid, localStorage,
                           comments, history, zaps>>
       ELSE /\ payTrace' = Append(payTrace, "generateInvoice")
            /\ walletLog' = Append(walletLog, "sendPayment")
            /\ PayFail(NewError(NotInitializedMessage))
    /\ UNCHANGED <<nextTimerId, now, schedulerVars>>
    /\ UNCHANGED <<orphans, mutations, variant, webln, isEnabled, provider, initialized,
                   lastRejection, toastShownAt, isProcessingTip, toast, opened,
                   runs>>
    /\ UNCHANGED otherVars

\* A click on the close button of the error banner: setError(null).
DismissError ==
    /\ variant = "pay"
    /\ error # NoError
    /\ error' = NoError
    /\ UNCHANGED hookVars
    /\ UNCHANGED <<orphans, mutations, variant, webln, isEnabled, provider, initialized,
                   walletLog, lastRejection, toastShownAt, pc, isProcessingTip,
                   isLoading, toast, isPaid, localStorage, appTimers, opened,
                   runs, outcomes, payTrace>>
    /\ UNCHANGED otherVars

\* Variant: the stream is unlocked whatever the wallet answered.
PaySendSettledOptimistic ==
    /\ variant = "pay"
    /\ pc = "send"
    /\ \/ /\ isPaid' = TRUE
          /\ PayAddZapComment
          /\ localStorage' = UnlockedStorage(Preimage)
          /\ payTrace' = Append(payTrace, "paid")
          /\ isLoading' = FALSE
          /\ pc' = "idle"
          /\ outcomes' = Append(outcomes, "success")
          /\ UNCHANGED <<error, lastRejection>>
       \/ /\ \E rejection \in ProviderRejections :
                /\ error' = PayCatchMessage(rejection)
                /\ lastRejection' = rejection
          /\ outcomes' = Append(outcomes, "error")
          /\ isPaid' = TRUE
          /\ isLoading' = FALSE
          /\ pc' = "idle"
          /\ UNCHANGED <<localStorage, comments, history, zaps, payTrace>>
    /\ UNCHANGED <<nextTimerId, now, schedulerVars>>
    /\ UNCHANGED <<orphans, mutations, variant, webln, isEnabled, provider, initialized,
                   walletLog, toastShownAt, isProcessingTip, toast, appTimers,
                   opened, runs>>
    /\ UNCHANGED otherVars

\* provider.sendPayment(invoice) settles: on success the stream is unlocked,
\* the zap comment added and the unlock stored; a rejection is rethrown to
\* catch.  finally resets the flag on every path.
PaySendSettled ==
    /\ variant = "pay"
    /\ pc = "send"
    /\ \/ /\ isPaid' = TRUE
          /\ PayAddZapComment
          /\ localStorage' = UnlockedStorage(Preimage)
          /\ payTrace' = Append(payTrace, "paid")
          /\ isLoading' = FALSE
          /\ pc' = "idle"
          /\ outcomes' = Append(outcomes, "success")
          /\ UNCHANGED <<error, lastRejection>>
       \/ /\ \E rejection \in ProviderRejections :
                /\ PayFail(rejection)
                /\ lastRejection' = rejection
          /\ UNCHANGED payTrace
    /\ UNCHANGED <<nextTimerId, now, schedulerVars>>
    /\ UNCHANGED <<orphans, mutations, variant, webln, isEnabled, provider, initialized,
                   walletLog, toastShownAt, isProcessingTip, toast, appTimers,
                   opened, runs>>
    /\ UNCHANGED otherVars

-----------------------------------------------------------------------------
(* LightningManager called directly, in any order *)

\* The methods that use the provider, and the provider call each makes.
ManagerOperations ==
    IF variant = "tip" THEN { "createTipInvoice", "getWalletInfo" }
                       ELSE { "sendPayment" }

ProviderCall(op) ==
    CASE op = "createTipInvoice" -> "makeInvoice"
      [] op = "getWalletInfo" -> "getInfo"
      [] op = "sendPayment" -> "provider.sendPayment"

managerFrame == <<variant, webln, pc, isProcessingTip, isLoading, toast, error,
                  isPaid, localStorage, appTimers, opened, runs, outcomes,
                  payTrace, mutations, lastRejection, toastShownAt, orphans,
                  requests, randomPool>>

\* initialize() is called: it throws at once without window.webln, else it
\* awaits window.webln.enable().
ManagerInitialize ==
    /\ managerCalls < MaxManagerCalls
    /\ managerCalls' = managerCalls + 1
    /\ IF ~webln
       THEN /\ walletLog' = Append(walletLog, "initialize")
            /\ managerResult' = "notAvailable"
            /\ UNCHANGED enablePending
       ELSE /\ walletLog' = walletLog \o <<"initialize", "enable">>
            /\ managerResult' = "pending"
            /\ enablePending' = enablePending + 1
    /\ UNCHANGED <<isEnabled, provider, initialized>>
    /\ UNCHANGED hookVars
    /\ UNCHANGED managerFrame

\* enable() of a pending initialize() settles: on success provider and
\* isEnabled are set, on a rejection initialize() throws.
ManagerEnableSettled ==
    /\ enablePending > 0
    /\ enablePending' = enablePending - 1
    /\ \/ /\ provider' = WebLN
          /\ isEnabled' = TRUE
          /\ initialized' = initialized + 1
          /\ managerResult' = "initialized"
       \/ /\ managerResult' = "enableFailed"
          /\ UNCHANGED <<isEnabled, provider, initialized>>
    /\ UNCHANGED <<managerCalls, walletLog>>
    /\ UNCHANGED hookVars
    /\ UNCHANGED managerFrame

\* Variant: the method calls the provider without looking at isEnabled.
ManagerOperationUnguarded ==
    /\ managerCalls < MaxManagerCalls
    /\ managerCalls' = managerCalls + 1
    /\ \E op \in ManagerOperations :
          /\ walletLog' = walletLog \o <<op, ProviderCall(op)>>
          /\ managerResult' = "provider"
    /\ UNCHANGED <<isEnabled, provider, initialized, enablePending>>
    /\ UNCHANGED hookVars
    /\ UNCHANGED managerFrame

\* createTipInvoice(), getWalletInfo() or sendPayment() is called: it throws
\* the 'not initialized' error unless isEnabled and provider are set, else
\* it calls the provider.
ManagerOperation ==
    /\ managerCalls < MaxManagerCalls
    /\ managerCalls' = managerCalls + 1
    /\ \E op \in ManagerOperations :
          IF ~isEnabled \/ provider = NoProvider
          THEN /\ walletLog' = Append(walletLog, op)
               /\ managerResult' = "notInitialized"
          ELSE /\ walletLog' = walletLog \o <<op, ProviderCall(op)>>
               /\ managerResult' = "provider"
    /\ UNCHANGED <<isEnabled, provider, initialized, enablePending>>
    /\ UNCHANGED hookVars
    /\ UNCHANGED managerFrame

-----------------------------------------------------------------------------

Next ==
    \/ Fire
    \/ Rerender
    \/ AddZapComment
    \/ Tick

Spec == Init /\ [][Next]_vars

\* A session that is torn down and mounted again.
NextLifecycle ==
    \/ LifecycleFire
    \/ Rerender
    \/ LifecycleAddZapComment
    \/ LifecycleTick
    \/ Unmount
    \/ Mount

SpecLifecycle == Init /\ [][NextLifecycle]_vars

\* A torn-down session whose cancelled timer callbacks are called by a test.
NextCaptured ==
    \/ LifecycleFire
    \/ Rerender
    \/ LifecycleAddZapComment
    \/ LifecycleTick
    \/ Unmount
    \/ Mount
    \/ InvokeCancelledCallback

SpecCaptured == Init /\ [][NextCaptured]_vars

\* A session in which the values of Math.random() vary from call to call.
NextDraws ==
    \/ DrawFire
    \/ Rerender
    \/ DrawAddZapComment
    \/ DrawTick

SpecDraws == InitDraws /\ [][NextDraws]_vars

\* The scheduler alone in such a session: firings, re-runs of the effect and
\* the clock.
NextArming ==
    \/ DrawFire
    \/ Rerender
    \/ DrawTick

SpecArming == InitDraws /\ [][NextArming]_vars

\* An active session without priority appends.
NextSynthetic ==
    \/ SyntheticFire
    \/ Rerender
    \/ SyntheticTick

SpecSynthetic == Init /\ [][NextSynthetic]_vars

\* Timers fire when due, React commits pending re-renders, time passes.
SpecSyntheticFair ==
    /\ Init
    /\ [][NextSynthetic]_vars
    /\ WF_vars(SyntheticFire)
    /\ WF_vars(Rerender)
    /\ WF_vars(SyntheticTick)

\* A session whose caller changes the returned array in place.
NextSnapshot ==
    \/ LifecycleFire
    \/ Rerender
    \/ LifecycleAddZapComment
    \/ LifecycleTick
    \/ MutateSnapshot

SpecSnapshot == Init /\ [][NextSnapshot]_vars

\* The two applications: the handlers, the wallet's answers, the timers.
NextApp ==
    \/ AppFire
    \/ Rerender
    \/ AppTick
    \/ TipClick
    \/ TipEnableSettled
    \/ TipInvoiceSettled
    \/ DismissToast
    \/ OpenWalletSite
    \/ PayClick
    \/ PayInitRejected
    \/ PayEnableSettled
    \/ PayInvoiceReady
    \/ PaySendSettled
    \/ DismissError

SpecApp == InitApp /\ [][NextApp]_vars

\* The tip application mounts again: the hook and the App start from fresh
\* state.  A handleTip run of the instance that was unmounted goes on in
\* its own closure.
SessionMount ==
    /\ MountHook(randomPool)
    /\ toast' = NoToast
    /\ isProcessingTip' = FALSE
    /\ pc' = "idle"
    /\ orphans' = IF pc = "idle" THEN orphans
                  ELSE orphans \cup { [ inst |-> mounts, pc |-> pc ] }
    /\ UNCHANGED <<mutations, variant, webln, isEnabled, provider, initialized,
                   walletLog, lastRejection, toastShownAt, isLoading, error,
                   isPaid, localStorage, appTimers, opened, runs, outcomes,
                   payTrace>>
    /\ UNCHANGED otherVars

\* window.webln.enable() settles for a handleTip run whose instance was
\* replaced by a new mount: the manager goes on as in TipEnableSettled,
\* the state updates of the handler are discarded.
OrphanEnableSettled ==
    /\ variant = "tip"
    /\ \E o \in orphans :
          /\ o.pc = "enable"
          /\ \/ /\ isEnabled' = TRUE
                /\ provider' = WebLN
                /\ initialized' = initialized + 1
                /\ walletLog' =
                      walletLog \o <<"createTipInvoice", "makeInvoice">>
                /\ orphans' = (orphans \ {o}) \cup { [ o EXCEPT !.pc = "invoice" ] }
                /\ UNCHANGED <<outcomes, lastRejection>>
             \/ /\ \E rejection \in ProviderRejections :
                      lastRejection' = rejection
                /\ orphans' = orphans \ {o}
                /\ outcomes' =
                      Append(outcomes,
                             TipCatchOutcome(NewError(TipRejectedMessage)))
                /\ UNCHANGED <<isEnabled, provider, initialized, walletLog>>
    /\ UNCHANGED hookVars
    /\ UNCHANGED <<mutations, variant, webln, toast, toastShownAt, appTimers,
                   pc, isProcessingTip, isLoading, error, isPaid, localStorage,
                   opened, runs, payTrace>>
    /\ UNCHANGED otherVars

\* provider.makeInvoice() settles for such a run: showToast arms its timer,
\* setToast, addZapComment and setIsProcessingTip are discarded.
OrphanInvoiceSettled ==
    /\ variant = "tip"
    /\ \E o \in orphans :
          /\ o.pc = "invoice"
          /\ orphans' = orphans \ {o}
          /\ \/ /\ appTimers' = appTimers \cup
                      { AppTimer(nextTimerId, "dismiss", ToastMs, o.inst) }
                /\ nextTimerId' = nextTimerId + 1
                /\ zaps' = zaps + 1
                /\ outcomes' = Append(outcomes, "success")
                /\ UNCHANGED lastRejection
             \/ \E rejection \in ProviderRejections :
                   LET err == CreateTipInvoiceError(rejection)
                   IN  /\ IF TipCatchToast(err) = NoToast
                          THEN UNCHANGED <<appTimers, nextTimerId>>
                          ELSE /\ appTimers' = appTimers \cup
                                     { AppTimer(nextTimerId, "dismiss",
                                                ToastMs, o.inst) }
                               /\ nextTimerId' = nextTimerId + 1
                       /\ outcomes' = Append(outcomes, TipCatchOutcome(err))
                       /\ lastRejection' = rejection
                       /\ UNCHANGED zaps
    /\ UNCHANGED <<comments, history, now, schedulerVars>>
    /\ UNCHANGED <<mutations, variant, webln, isEnabled, provider, initialized,
                   walletLog, toast, toastShownAt, pc, isProcessingTip,
                   isLoading, error, isPaid, localStorage, opened, runs,
                   payTrace>>
    /\ UNCHANGED otherVars

\* The tip application over the life of its session.
NextSession ==
    \/ SessionFire
    \/ Rerender
    \/ SessionTick
    \/ SessionTipClick
    \/ TipEnableSettled
    \/ TipInvoiceSettled
    \/ DismissToast
    \/ OpenWalletSite
    \/ Unmount
    \/ SessionMount
    \/ OrphanEnableSettled
    \/ OrphanInvoiceSettled

SpecSession == InitSession /\ [][NextSession]_vars

\* The manager used directly, its methods called in any order.
NextManager ==
    \/ ManagerInitialize
    \/ ManagerEnableSettled
    \/ ManagerOperation

SpecManager == InitApp /\ [][NextManager]_vars

\* ---- The upload server (express + multer) ----

\* What a POST /upload request carries: a multipart body with the field
\* "file", a body without a file, or a multipart body with another field.
UploadKinds == { "file", "nofile", "badfield" }

uploadFrame == <<enablePending, managerCalls, managerResult, randomPool>>

\* A POST /upload request reaches the route.
UploadReceive(r, kind) ==
    /\ requests[r].state = "idle"
    /\ requests' = [ requests EXCEPT ![r].state = kind ]
    /\ UNCHANGED hookVars
    /\ UNCHANGED appVars
    /\ UNCHANGED uploadFrame

\* upload.single('file'): the file is written under ./uploads and next()
\* is called; without a file next() is called at once; an unexpected
\* field is passed to next(err) and express answers 500.
UploadSingle(r) ==
    /\ requests[r].state \in UploadKinds
    /\ requests' =
          [ requests EXCEPT ![r] =
              CASE @.state = "file" ->
                     [ state |-> "stored", stored |-> TRUE,
                       response |-> "none" ]
                [] @.state = "nofile" ->
                     [ state |-> "passed", stored |-> FALSE,
                       response |-> "none" ]
                [] OTHER ->
                     [ state |-> "failed", stored |-> FALSE,
                       response |-> "500" ] ]
    /\ UNCHANGED hookVars
    /\ UNCHANGED appVars
    /\ UNCHANGED uploadFrame

\* The route handler: console.log("file uploaded") and nothing else; res
\* is never written to.
UploadHandler(r) ==
    /\ requests[r].state \in { "stored", "passed" }
    /\ requests' = [ requests EXCEPT ![r].state = "handled" ]
    /\ UNCHANGED hookVars
    /\ UNCHANGED appVars
    /\ UNCHANGED uploadFrame

NextUpload ==
    \/ \E r \in 1..MaxRequests, kind \in UploadKinds : UploadReceive(r, kind)
    \/ \E r \in 1..MaxRequests : UploadSingle(r)
    \/ \E r \in 1..MaxRequests : UploadHandler(r)

SpecUpload == Init /\ [][NextUpload]_vars

\* The wallet's promises settle, timers fire when due and time passes.
SpecAppFair ==
    /\ InitApp
    /\ [][NextApp]_vars
    /\ WF_vars(TipEnableSettled)
    /\ WF_vars(TipInvoiceSettled)
    /\ WF_vars(PayInitRejected)
    /\ WF_vars(PayEnableSettled)
    /\ WF_vars(PayInvoiceReady)
    /\ WF_vars(PaySendSettled)
    /\ WF_vars(AppTick)

-----------------------------------------------------------------------------
(* Properties *)

Min(a, b) == IF a <= b THEN a ELSE b

Last(s) == s[Len(s)]

SyntheticPositions == { i \in 1..Len(history) : history[i].op = "synthetic" }

ZapPositions == { i \in 1..Len(history) : history[i].op = "zap" }

\* C1: after N appends in any mix of synthetic and priority appends the
\* buffer has length exactly min(N, 20); it never exceeds 20.
C1_LengthIsMinOfAppendsAndCapacity ==
    /\ Len(comments) = Min(Len(history), 20)
    /\ Len(comments) <= 20

\* More than 20 appends of both kinds were made and the buffer is full.
C1_Witness ==
    /\ Len(history) > 20
    /\ ZapPositions # {}
    /\ SyntheticPositions # {}
    /\ Len(comments) = 20

\* C2: eviction is FIFO and ignores isZap: the buffer is exactly the most
\* recent min(N, 20) appended messages in the order of their appends.
C2_BufferIsMostRecentAppends ==
    LET n == Len(history)
        k == Min(n, 20)
    IN  /\ Len(comments) = k
        /\ \A i \in 1..k : comments[i] = history[n - k + i].msg

\* A priority message was evicted by later appends while synthetic ones stay.
C2_Witness ==
    /\ Len(history) > 20
    /\ \E p \in ZapPositions : p <= Len(history) - 20
    /\ \A i \in 1..Len(comments) : ~comments[i].isZap

\* C3: the buffer is in insertion order, oldest first, and its timestamps
\* are non-decreasing from the first element to the last.
C3_InsertionOrderAndTimestamps ==
    /\ \A i, j \in 1..Len(comments) :
          i < j => comments[i].timestamp <= comments[j].timestamp
    /\ \A i \in 1..(Len(comments) - 1) :
          \E p \in 1..Len(history) :
              /\ history[p].msg = comments[i]
              /\ \E q \in (p + 1)..Len(history) :
                    history[q].msg = comments[i + 1]

\* A priority message sits between synthetic ones created at other instants.
C3_Witness ==
    \E i \in 2..(Len(comments) - 1) :
        /\ comments[i].isZap
        /\ comments[i - 1].timestamp < comments[i + 1].timestamp
        /\ ~comments[i - 1].isZap
        /\ ~comments[i + 1].isZap

\* C4: no two messages created by one buffer instance have the same id,
\* two priority appends at the same clock instant included.
C4_IdsUnique ==
    \A i, j \in 1..Len(history) :
        i # j => history[i].msg.id # history[j].msg.id

\* C5: a synthetic message created with cursor k has the text
\* COMMENT_TEMPLATES[k mod 20]; cursors k and k + 20 give the same text and
\* the template index stays within 0..19.
C5_TemplateWrapsModulo20 ==
    /\ \A i \in SyntheticPositions :
          /\ history[i].cursor >= 0
          /\ history[i].msg.text = COMMENT_TEMPLATES[(history[i].cursor % 20) + 1]
          /\ history[i].msg.text # Undefined
    /\ \A i, j \in SyntheticPositions :
          history[j].cursor = history[i].cursor + 20
              => history[j].msg.text = history[i].msg.text

\* Synthetic appends with cursors k and k + 20 have both happened.
C5_Witness ==
    \E i, j \in SyntheticPositions :
        /\ history[j].cursor = history[i].cursor + 20
        /\ history[j].msg.text = history[i].msg.text

\* C6: a priority append without argument has the default text, and one
\* with a provided text X has exactly the text X, the empty string included.
C6_ZapTextIsArgumentOrDefault ==
    \A i \in ZapPositions :
        /\ history[i].arg = Undefined => history[i].msg.text = DefaultZapText
        /\ history[i].arg # Undefined => history[i].msg.text = history[i].arg

\* A step of addZapComment adds exactly one message, a zap, at the end.
C7_ZapStep ==
    zaps' = zaps + 1 =>
        /\ Len(comments') = Min(Len(comments) + 1, 20)
        /\ Last(comments').isZap
        /\ Last(comments') = Last(history').msg
        /\ Last(history').op = "zap"
        /\ \A i \in 1..(Len(comments') - 1) :
              comments'[i] = comments[Len(comments) - (Len(comments') - 1) + i]

\* One synthetic append, then one priority append with "Tip received!".
C7_Scenario ==
    ( /\ Len(history) = 2
      /\ history[1].op = "synthetic"
      /\ history[2].op = "zap"
      /\ history[2].arg = "Tip received!" )
        => /\ Len(comments) = 2
           /\ comments[2].isZap
           /\ comments[2].text = "Tip received!"

\* C7: a priority append always succeeds: it can be made in every state of
\* an active session, whatever the timer and the fill of the buffer, and
\* adds exactly one message with isZap = true as the last element.
C7_PriorityAppendAlwaysSucceeds ==
    /\ [](mounted /\ zaps < MaxZaps => ENABLED AddZapComment)
    /\ []C7_Scenario
    /\ [][C7_ZapStep]_vars

\* A priority append was made on a full buffer, with a timer pending.
C7_Witness ==
    /\ Len(history) > 20
    /\ Last(history).op = "zap"
    /\ Last(comments).isZap
    /\ timers # {}

\* Once the session is torn down the buffer and the cursor stay as they are.
C8_NoMutationStep ==
    (~mounted /\ ~mounted') =>
        /\ comments' = comments
        /\ currentIndex' = currentIndex
        /\ fires' = fires

\* C8: after the cleanup of the effect has run no timer of the cancelled
\* closure is pending, so none fires later; after teardown no timer is
\* pending at all and buffer and cursor are never changed again.
C8_CancellationStopsScheduler ==
    /\ [](\A t \in timers : t.gen = effectGen)
    /\ [](~mounted => timers = {})
    /\ [][C8_NoMutationStep]_vars

\* Teardown right after a firing re-armed the timer, before the re-render.
C8_Witness ==
    /\ ~mounted
    /\ closureIndex # currentIndex
    /\ timers = {}
    /\ \E t \in cleared : t.id = timeoutId

\* C9: calling the callback of a cancelled timer directly after the
\* scheduler was cancelled appends nothing: buffer and cursor are unchanged.
C9_CancelledCallbackAppendsNothing ==
    [][invoked' = invoked + 1 =>
          /\ comments' = comments
          /\ currentIndex' = currentIndex
          /\ history' = history]_vars

\* A cancelled callback was called after teardown of a session with comments.
C9_Witness ==
    /\ invoked > 0
    /\ ~mounted
    /\ comments # << >>

\* A timer firing makes one synthetic append for the current cursor,
\* increments the cursor by one and leaves a timer armed.
C10_FireStep ==
    fires' = fires + 1 =>
        /\ currentIndex' = currentIndex + 1
        /\ Len(history') = Len(history) + 1
        /\ Last(history').op = "synthetic"
        /\ Last(history').msg.text = COMMENT_TEMPLATES[(currentIndex % 20) + 1]
        /\ Last(comments') = Last(history').msg
        /\ \E t \in timers' : t.due > now /\ t.id = timeoutId'

\* The synthetic appends used the cursors 0, 1, 2, ... in this order.
C10_CursorsInOrder ==
    /\ currentIndex = Cardinality(SyntheticPositions)
    /\ \A i \in SyntheticPositions :
          history[i].cursor = Cardinality({ j \in SyntheticPositions : j < i })

\* C10: each timer firing performs exactly one synthetic append with the
\* current cursor, increments the cursor by 1 and re-arms the scheduler; the
\* k-th firing uses cursor k and the cursor equals the number of synthetic
\* appends made so far.
C10_EachFiringAppendsOnceAndAdvances ==
    /\ []C10_CursorsInOrder
    /\ [][C10_FireStep]_vars

\* More firings than templates, with a priority append in between.
C10_Witness ==
    /\ currentIndex > 20
    /\ ZapPositions # {}
    /\ fires = currentIndex

\* C11: at most one scheduler timer is pending at any time: after
\* activation, after each firing, after the effect re-run it triggers and
\* after priority appends the number of pending timers is 0 or 1.
C11_AtMostOnePendingTimer ==
    Cardinality(timers) <= 1

\* The effect was re-run after a firing: the timer the callback re-armed was
\* cleared and the timer of the new closure is the only one pending.
C11_Witness ==
    /\ fires > 0
    /\ ZapPositions # {}
    /\ closureIndex = currentIndex
    /\ Cardinality(timers) = 1
    /\ \E t \in timers : \E c \in cleared : c.id = t.id - 1 /\ c.gen = t.gen - 1

\* A firing of a session that was mounted again appends as usual.
C12_FireStepAfterRestart ==
    (mounts > 0 /\ mounted /\ fires' = fires + 1) =>
        /\ Len(history') = Len(history) + 1
        /\ Last(comments') = Last(history').msg
        /\ Last(comments').text = COMMENT_TEMPLATES[(currentIndex % 20) + 1]
        /\ currentIndex' = currentIndex + 1

\* C12: a cancelled scheduler can be activated again: after activate/cancel
\* calls ending in activate exactly one timer is pending and firings append
\* normally; after calls ending in cancel no timer is pending.
C12_RestartAfterCancel ==
    /\ [](mounted => /\ Cardinality(timers) = 1
                     /\ \A t \in timers : t.id = timeoutId /\ t.due >= now)
    /\ [](~mounted => timers = {})
    /\ [][C12_FireStepAfterRestart]_vars

\* The session was cancelled, activated again, and its timer has fired.
C12_Witness ==
    /\ mounts > 0
    /\ mounted
    /\ SyntheticPositions # {}
    /\ Cardinality(timers) = 1

\* A step of addZapComment leaves the cursor, the pending timer and its
\* remaining delay, and the effect closure as they are.
C13_ZapStepFrame ==
    zaps' = zaps + 1 =>
        /\ currentIndex' = currentIndex
        /\ timers' = timers
        /\ timeoutId' = timeoutId
        /\ now' = now
        /\ closureIndex' = closureIndex
        /\ effectGen' = effectGen

\* The k-th synthetic append carries template k mod 20, whatever priority
\* appends were made in between.
C13_TemplatesUnaffected ==
    \A i \in SyntheticPositions :
        history[i].msg.text =
            COMMENT_TEMPLATES[
                (Cardinality({ j \in SyntheticPositions : j < i }) % 20) + 1]

\* C13: a priority append neither blocks nor is blocked by the scheduler:
\* it can be made in any scheduler state of an active session and leaves
\* the cursor and the pending timer unchanged, so later firings produce the
\* same templates as without it.
C13_PriorityAppendIndependentOfScheduler ==
    /\ [](mounted /\ zaps < MaxLifecycleZaps => ENABLED LifecycleAddZapComment)
    /\ []C13_TemplatesUnaffected
    /\ [][C13_ZapStepFrame]_vars

\* A priority append was made between two firings.
C13_Witness ==
    \E p \in ZapPositions :
        /\ \E i \in SyntheticPositions : i < p
        /\ \E j \in SyntheticPositions : j > p

\* C15: from an empty buffer with cursor 0 and no priority appends, after n
\* firings the buffer holds in order the templates of cursors
\* max(0, n - 20) .. n - 1; after 25 firings those of cursors 5..24, that is
\* template indices 5..19 then 0..4.
C15_BufferAfterNFirings ==
    LET n == fires
        k == IF n <= 20 THEN n ELSE 20
        first == IF n <= 20 THEN 0 ELSE n - 20
    IN  /\ Len(comments) = k
        /\ \A i \in 1..k :
              /\ comments[i].text = COMMENT_TEMPLATES[((first + i - 1) % 20) + 1]
              /\ ~comments[i].isZap
        /\ n = 25 =>
              [ i \in 1..20 |-> comments[i].text ] =
                  SubSeq(COMMENT_TEMPLATES, 6, 20) \o SubSeq(COMMENT_TEMPLATES, 1, 5)

\* 25 firings have happened.
C15_Witness ==
    /\ fires = 25
    /\ currentIndex = 25
    /\ Len(comments) = 20

\* Every pending timer has a delay of 2000 to 4000 ms and was armed at an
\* instant that has been reached.
C17_PendingDelays ==
    \A t \in timers :
        /\ 2000 <= t.delay
        /\ t.delay <= 4000
        /\ t.due - t.delay >= 0
        /\ t.due - t.delay <= now

\* A step that arms a timer gives it the delay of a value Math.random() can
\* return, counted from the instant of the step.
C17_ArmStep ==
    \A t \in timers' \ timers :
        /\ \E r \in randomPool : t.delay = GetRandomInterval(r)
        /\ t.due = now' + t.delay

\* Whatever the delays armed before, the next arming, by a firing or by a
\* re-run of the effect, can get the delay of any value Math.random() can
\* return.
C17_DrawnAfresh ==
    \A r \in randomPool :
        /\ ENABLED DrawFire =>
              ENABLED (DrawFire /\ \E t \in timers' \ timers :
                                       t.delay = GetRandomInterval(r))
        /\ ENABLED Rerender =>
              ENABLED (Rerender /\ \E t \in timers' \ timers :
                                       t.delay = GetRandomInterval(r))

\* C17: every timer armed by the scheduler, on activation and on every
\* re-arm, has a delay d with 2000 <= d <= 4000 milliseconds, drawn afresh
\* for each arming: the delay comes from a call of Math.random() made by
\* that arming, and no earlier draw restricts it.
C17_DelayWithinBounds ==
    /\ [](C17_PendingDelays /\ C17_DrawnAfresh)
    /\ [][C17_ArmStep]_vars

\* The timer armed on activation had a delay of 2874 ms and fired; the timer
\* armed by that firing has another delay, the largest one, 4000 ms.
C17_Witness ==
    /\ fires = 1
    /\ \E t \in timers :
          /\ t.delay = MinInterval + IntervalSpread
          /\ t.due - t.delay = GetRandomInterval(FixedRandom)
          /\ t.delay # GetRandomInterval(FixedRandom)

\* C14: the sequence returned by the hook is a copy: a caller changing it
\* in place never changes the comments held by the hook.
C14_SnapshotIsACopy ==
    [][mutations' = mutations + 1 => comments' = comments]_vars

\* Number of finished runs recorded with the given outcome.
CountOutcome(kind) ==
    Cardinality({ i \in 1..Len(outcomes) : outcomes[i] = kind })

\* A run of handleTip that finishes appends one zap message when it
\* succeeded and none otherwise, and zap messages are appended by nothing
\* else.
C18_TipStep ==
    variant = "tip" =>
        /\ zaps' # zaps => Len(outcomes') = Len(outcomes) + 1
        /\ Len(outcomes') = Len(outcomes) + 1 =>
              /\ zaps' = zaps + (IF Last(outcomes') = "success" THEN 1 ELSE 0)
              /\ Len(history') = Len(history) + (zaps' - zaps)
              /\ Last(outcomes') = "success" =>
                    /\ pc = "invoice"
                    /\ isEnabled
                    /\ Last(comments').isZap
                    /\ Last(comments') = Last(history').msg

\* C18: handleTip calls addZapComment exactly once when initialize() and
\* createTipInvoice() both succeeded and never on another path, so the
\* number of zap messages ever appended equals the number of successful tip
\* flows.
C18_OneZapPerSuccessfulTip ==
    /\ [](variant = "tip" =>
             /\ zaps = CountOutcome("success")
             /\ Cardinality(ZapPositions) = CountOutcome("success"))
    /\ [][C18_TipStep]_vars

\* One tip flow succeeded and another one was cancelled by the user.
C18_Witness ==
    /\ variant = "tip"
    /\ pc = "idle"
    /\ CountOutcome("success") = 1
    /\ CountOutcome("cancelled") = 1
    /\ zaps = 1

\* The wallet steps of a run of handlePayment that unlocks the stream.
FullPayTrace ==
    <<"initialize", "generateInvoice", "sendPayment", "paid">>

\* isPaid turns true only in the step in which sendPayment resolved.
C19_UnlockStep ==
    (~isPaid /\ isPaid') =>
        /\ pc = "send"
        /\ payTrace = SubSeq(FullPayTrace, 1, 3)
        /\ payTrace' = FullPayTrace

\* C19: isPaid is true only after initialize(), generateInvoice() and
\* sendPayment() succeeded in that order within one run of handlePayment,
\* or when localStorage held streamUnlocked = 'true' at start-up;
\* sendPayment is not invoked before the other two succeeded.
C19_PaidOnlyAfterWalletSteps ==
    /\ [](isPaid =>
             \/ payTrace = FullPayTrace
             \/ runs = 0 /\ localStorage.streamUnlocked = "true")
    /\ [](/\ Len(payTrace) <= 4
          /\ \A i \in 1..Len(payTrace) : payTrace[i] = FullPayTrace[i])
    /\ [](pc = "send" => isEnabled /\ payTrace = SubSeq(FullPayTrace, 1, 3))
    /\ [][C19_UnlockStep]_vars

\* A payment was rejected, the next run paid and unlocked the stream.
C19_Witness ==
    /\ variant = "pay"
    /\ isPaid
    /\ runs = 2
    /\ outcomes = <<"error", "success">>
    /\ payTrace = FullPayTrace
    /\ localStorage.streamUnlocked = "true"

\* C20: the processing flag is always reset: isProcessingTip and isLoading
\* are true exactly while a run of the handler is waiting for the wallet,
\* every way of finishing a run leaves the flag false, and when the
\* wallet's promises settle a raised flag is eventually lowered.
C20_FlagAlwaysReset ==
    /\ [](isProcessingTip <=> (variant = "tip" /\ pc # "idle"))
    /\ [](isLoading <=> (variant = "pay" /\ pc # "idle"))
    /\ [][Len(outcomes') = Len(outcomes) + 1 =>
             ~isProcessingTip' /\ ~isLoading' /\ pc' = "idle"]_vars
    /\ (isProcessingTip ~> ~isProcessingTip)
    /\ (isLoading ~> ~isLoading)

\* A run ended by the user's cancellation (return inside catch) and a run
\* ended by another error have both finished with the flag lowered.
C20_Witness ==
    /\ variant = "tip"
    /\ CountOutcome("cancelled") = 1
    /\ CountOutcome("error") = 1
    /\ ~isProcessingTip
    /\ pc = "idle"

\* A run of a handler starts only while no run is in flight.
C21_RunStartsWhenIdle ==
    runs' = runs + 1 =>
        /\ pc = "idle"
        /\ ~isProcessingTip
        /\ ~isLoading

\* C21: double submission is prevented: while a tip or payment flow is in
\* progress the button is disabled and no second run of the handler starts,
\* so at most one flow is in flight at any time.
C21_NoDoubleSubmission ==
    /\ [](pc # "idle" \/ isProcessingTip \/ isLoading =>
             ~ENABLED TipClick /\ ~ENABLED PayClick)
    /\ [][C21_RunStartsWhenIdle]_vars

\* A tip flow waits for the wallet and the button is disabled although
\* another run would be within the bound.
C21_Witness ==
    /\ variant = "tip"
    /\ runs = 1
    /\ runs < MaxRuns
    /\ pc = "invoice"
    /\ isProcessingTip

ProviderCalls ==
    { "makeInvoice", "getInfo", "provider.sendPayment" }

\* A method call reaches the provider only after a successful initialize();
\* before that it ends with the 'not initialized' error; a failed
\* initialize() leaves isEnabled and provider as they are.
C22_ManagerStep ==
    /\ (managerCalls' = managerCalls + 1 /\ Last(walletLog') \in ProviderCalls)
          => initialized > 0 /\ isEnabled /\ provider = WebLN
    /\ (managerCalls' = managerCalls + 1 /\ Last(walletLog') \in ManagerOperations)
          => initialized = 0 /\ managerResult' = "notInitialized"
    /\ managerResult' \in { "notAvailable", "enableFailed" }
          => isEnabled' = isEnabled /\ provider' = provider

\* C22: initialize() must precede wallet operations: createTipInvoice,
\* getWalletInfo and sendPayment reach the provider only if an earlier
\* initialize() succeeded and otherwise throw without calling it; a failed
\* initialize() changes neither isEnabled nor provider; isEnabled implies a
\* provider.
C22_InitializePrecedesWalletOperations ==
    /\ [](isEnabled => provider # NoProvider)
    /\ [](isEnabled <=> initialized > 0)
    /\ [](\A i \in 1..Len(walletLog) :
             walletLog[i] \in ProviderCalls =>
                 \E j \in 1..(i - 1) : walletLog[j] = "enable")
    /\ [][C22_ManagerStep]_vars

\* An operation was refused before initialize(), and after a successful
\* initialize() an operation reached the provider.
C22_Witness ==
    /\ Len(walletLog) >= 4
    /\ walletLog[1] \in ManagerOperations
    /\ walletLog[2] = "initialize"
    /\ Last(walletLog) \in ProviderCalls
    /\ managerResult = "provider"
    /\ initialized = 1

\* C23: while the session stays active injection never stops: the scheduler
\* is armed in every state, each firing appends a synthetic message, and
\* (up to the bound on firings) a further firing always eventually happens.
C23_InjectionNeverStops ==
    /\ [](mounted => timers # {})
    /\ [][fires' = fires + 1 =>
             /\ Len(history') = Len(history) + 1
             /\ Last(history').op = "synthetic"
             /\ timers' # {}]_vars
    /\ \A k \in 0..(MaxSyntheticFires - 1) : (fires = k) ~> (fires = k + 1)

\* The timer armed by the effect re-run after a firing has fired in turn,
\* and the scheduler is armed again.
C23_Witness ==
    /\ fires >= 3
    /\ closureIndex = currentIndex
    /\ \E t \in timers : t.gen = fires /\ t.due > now

\* The buffer changes only by an append of a firing or of addZapComment,
\* or is created empty when the session is mounted again.
C24_BufferStep ==
    comments' # comments =>
        \/ /\ fires' = fires + 1 \/ zaps' = zaps + 1
           /\ Len(history') = Len(history) + 1
           /\ comments' = SliceLast(Append(comments, Last(history').msg),
                                    MAX_COMMENTS)
        \/ /\ mounts' = mounts + 1
           /\ comments' = << >>

\* Cancellation, toasts and failing runs of handleTip leave the buffer as
\* it is, and cancellation leaves the cursor.
C24_FrameStep ==
    /\ (mounted /\ ~mounted') =>
          comments' = comments /\ currentIndex' = currentIndex
    /\ (toast' # toast /\ zaps' = zaps /\ mounts' = mounts) =>
          comments' = comments
    /\ (Len(outcomes') = Len(outcomes) + 1 /\ Last(outcomes') # "success") =>
          comments' = comments /\ zaps' = zaps
    /\ (timers' # timers /\ fires' = fires /\ mounts' = mounts) =>
          comments' = comments

\* C24: the buffer starts empty and changes only through the two append
\* operations: activation, cancellation, re-arming, toasts and every
\* failing path of handleTip leave its contents unchanged, and cancellation
\* also leaves the cursor unchanged.
C24_BufferChangesOnlyByAppends ==
    /\ comments = << >>
    /\ [][C24_BufferStep]_vars
    /\ [][C24_FrameStep]_vars

\* The session was cancelled with messages in the buffer, after a tip
\* flow that failed.
C24_Witness ==
    /\ ~mounted
    /\ comments # << >>
    /\ currentIndex > 0
    /\ CountOutcome("success") = 0
    /\ CountOutcome("cancelled") + CountOutcome("error") + CountOutcome("noWallet") > 0

AuthorPool ==
    { AUTHORS[i] : i \in 1..Len(AUTHORS) }

\* C25: each buffer entry has isZap = true if and only if its author is
\* 'System': synthetic entries have isZap = false and an author of the
\* AUTHORS pool, which does not contain 'System'; priority entries have
\* isZap = true and the author 'System'.
C25_ZapFlagIffSystemAuthor ==
    /\ SystemAuthor \notin AuthorPool
    /\ \A i \in 1..Len(comments) :
          /\ comments[i].isZap <=> comments[i].author = SystemAuthor
          /\ ~comments[i].isZap => comments[i].author \in AuthorPool
    /\ \A i \in 1..Len(history) :
          /\ history[i].op = "synthetic" =>
                ~history[i].msg.isZap /\ history[i].msg.author \in AuthorPool
          /\ history[i].op = "zap" =>
                history[i].msg.isZap /\ history[i].msg.author = SystemAuthor

\* The buffer holds a priority message and a synthetic message whose author
\* is from the middle of AUTHORS.
C25_Witness ==
    /\ \E i \in 1..Len(comments) : comments[i].isZap
    /\ \E i \in 1..Len(comments) :
          /\ ~comments[i].isZap
          /\ comments[i].author = "CryptoNinja"
          /\ comments[i].author # AUTHORS[RandomBelow(FixedRandom, Len(AUTHORS)) + 1]

\* A click without a wallet shows the error toast, calls neither the
\* manager nor the wallet, appends nothing and ends with the flag lowered.
C26_NoWalletStep ==
    (variant = "tip" /\ ~webln /\ runs' = runs + 1) =>
        /\ toast' = [ message |-> InstallAlbyText, type |-> "error" ]
        /\ walletLog' = walletLog
        /\ zaps' = zaps
        /\ comments' = comments
        /\ ~isProcessingTip'
        /\ pc' = "idle"
        /\ Last(outcomes') = "noWallet"

\* C26: when no WebLN wallet is available handleTip fails fast: it shows
\* an error toast, never calls initialize(), enable() or makeInvoice(),
\* appends no zap comment and finishes with isProcessingTip = false.
C26_NoWalletFailsFast ==
    /\ [](variant = "tip" /\ ~webln =>
             /\ walletLog = << >>
             /\ zaps = 0
             /\ ~isProcessingTip
             /\ ~isEnabled
             /\ pc = "idle")
    /\ [][C26_NoWalletStep]_vars

\* The tip button was clicked without a wallet and the toast is shown.
C26_Witness ==
    /\ variant = "tip"
    /\ ~webln
    /\ runs >= 1
    /\ toast.type = "error"
    /\ walletLog = << >>
    /\ \E t \in appTimers : t.kind = "open"

\* C27: when a tip flow fails the outcome depends on the cause: a rejection
\* or cancellation by the user is dismissed silently, every other failure
\* of initialize() or createTipInvoice() shows an error toast with a
\* message.
C27_FailureOutcomeByCause ==
    [][(/\ variant = "tip"
        /\ Len(outcomes') = Len(outcomes) + 1
        /\ Last(outcomes') \in { "cancelled", "error" }) =>
           IF lastRejection'.byUser
           THEN toast' = toast /\ appTimers' = appTimers
           ELSE /\ toast'.type = "error"
                /\ toast'.message # << >>
                /\ toastShownAt' = now]_vars

\* A failed run of handlePayment changes nothing but error and the flag; a
\* successful one unlocks, stores both keys and leaves error null.
C28_PayStep ==
    (variant = "pay" /\ Len(outcomes') = Len(outcomes) + 1) =>
        IF Last(outcomes') = "success"
        THEN /\ error = NoError /\ error' = NoError
             /\ isPaid'
             /\ localStorage'.streamUnlocked = "true"
             /\ localStorage'.paymentPreimage = Preimage
             /\ ~isLoading'
        ELSE /\ isPaid' = isPaid
             /\ zaps' = zaps
             /\ comments' = comments
             /\ localStorage' = localStorage
             /\ error' # NoError
             /\ ~isLoading'

\* C28: if a step of handlePayment fails, isPaid is left unchanged, no zap
\* comment is appended, nothing is written to localStorage, error is set
\* and isLoading ends false; on success error stays null and both
\* localStorage keys are written.
C28_PaymentFailureLeavesStateLocked ==
    /\ [](variant = "pay" /\ CountOutcome("success") = 0 /\ runs > 0 =>
             ~isPaid /\ zaps = 0 /\ localStorage = EmptyStorage)
    /\ [][C28_PayStep]_vars

\* sendPayment was rejected: the stream is still locked and the error is
\* shown.
C28_Witness ==
    /\ variant = "pay"
    /\ Len(outcomes) >= 1
    /\ Last(outcomes) = "error"
    /\ payTrace = SubSeq(FullPayTrace, 1, 3)
    /\ error # NoError
    /\ ~isPaid
    /\ ~isLoading

\* C29: every toast stays displayed until 5 seconds after it was shown,
\* unless a newer toast replaced it, also when several toasts are shown
\* less than 5 seconds apart: a toast is cleared no earlier than 5 seconds
\* after the showToast that set it.
C29_ToastShownFiveSeconds ==
    [][(toast # NoToast /\ toast' = NoToast) =>
           now >= toastShownAt + ToastMs]_vars

\* C30: every POST /upload request that the server accepted and whose file
\* was stored receives an HTTP response: once the route handler has
\* returned for such a request, a response has been sent.
C30_StoredUploadAnswered ==
    \A r \in 1..MaxRequests :
        (requests[r].state = "handled" /\ requests[r].stored) =>
            requests[r].response # "none"

====
